---- MODULE Spec2Model ----
(***************************************************************************)
(* Address-decode generation of PeakRDL-regblock                           *)
(* (src/peakrdl/regblock/addr_decode.py).                                  *)
(*                                                                         *)
(* The input is an elaborated address model: a tree of nodes under the     *)
(* top address map.  get_strobe_struct builds the strobe shape in one      *)
(* call; get_implementation builds a DecodeLogicGenerator and walks the    *)
(* tree depth-first, one listener callback per step.                       *)
(***************************************************************************)
EXTENDS Integers, Sequences, FiniteSets

VARIABLES
    top_node,            \* the address model: top address and its descendants
    pc,                  \* "Idle" | "Traversing" | "Done" (get_implementation)
    walk,                \* the listener callbacks of the walk in progress, in order
    pos,                 \* index of the next listener callback of the walk
    array_stride_stack,  \* DecodeLogicGenerator._array_stride_stack
    content,             \* statements appended by add_content, in order
    impl_ret,            \* what the last get_implementation returned
    struct_ret           \* what the last get_strobe_struct returned

vars == <<top_node, pc, walk, pos, array_stride_stack, content, impl_ret, struct_ret>>

----------------------------------------------------------------------------
(* Bounds of the input model *)

\* Number of nodes below the top address map.
MaxNodes == 2

\* array_dimensions of a node: empty when the node is not an array.
DimChoices == { <<>>, <<2>>, <<2, 3>>, <<2, 3, 2>> }

\* array_stride of an array node, in bytes: register arrays are packed at the
\* register width, memory arrays at the size of the larger memory, arrays of
\* address maps at 0x100.
StrideChoices(kind) ==
    CASE kind = "reg" -> { 4 }
      [] kind = "mem" -> { 16 }
      [] OTHER -> { 256 }

\* raw_absolute_address of the top address map.
TopAddrChoices == { 0, 4096 }

\* Offset of node number i from the top address map: every node has a slot
\* of 0x100 bytes, in the order of the node numbers.
OffsetChoices(i) == { 256 * i }

\* (mementries, memwidth) of a memory.
MemChoices == { <<4, 32>>, <<1, 9>> }

----------------------------------------------------------------------------
(* Sequence helpers *)

Reverse(s) == [i \in 1..Len(s) |-> s[Len(s) + 1 - i]]

RECURSIVE SumSeq(_)
SumSeq(s) == IF s = <<>> THEN 0 ELSE Head(s) + SumSeq(Tail(s))

RECURSIVE Flatten(_)
Flatten(ss) == IF ss = <<>> THEN <<>> ELSE Head(ss) \o Flatten(Tail(ss))

\* The elements of a set of integers as an increasing sequence.
RECURSIVE SortedSeq(_)
SortedSeq(S) ==
    IF S = {} THEN <<>>
    ELSE LET m == CHOOSE x \in S : \A y \in S : x <= y
         IN  <<m>> \o SortedSeq(S \ {m})

----------------------------------------------------------------------------
(* The address model (systemrdl nodes, read-only) *)

\* Node 0 is the top address map; nodes 1..n are its descendants.
NumNodes == Len(top_node.nodes)
NodeIds == 1..NumNodes

Node(i) == top_node.nodes[i]

is_array(node) == node.array_dimensions # <<>>

Children(i) == { j \in NodeIds : Node(j).parent = i }

IsAddressable(kind) == kind \in {"addrmap", "reg", "mem"}

\* The (array_dimensions, array_stride) pairs of a node: a node that is not an
\* array has no stride.
ArrayChoices(kind) ==
    { <<(<<>>), 0>> } \cup ((DimChoices \ { <<>> }) \X StrideChoices(kind))

\* What node number i can be, under a top map at address topaddr.
NodeShapes(i, topaddr) ==
    { [kind |-> k, parent |-> p, inst_name |-> i,
       array_dimensions |-> a[1], array_stride |-> a[2],
       raw_absolute_address |-> topaddr + o,
       mementries |-> 0, memwidth |-> 0] :
         k \in {"addrmap"}, p \in 0..(i - 1), a \in ArrayChoices("addrmap"),
         o \in OffsetChoices(i) }
    \cup
    { [kind |-> k, parent |-> p, inst_name |-> i,
       array_dimensions |-> a[1], array_stride |-> a[2],
       raw_absolute_address |-> topaddr + o,
       mementries |-> 0, memwidth |-> 0] :
         k \in {"reg"}, p \in 0..(i - 1), a \in ArrayChoices("reg"),
         o \in OffsetChoices(i) }
    \cup
    { [kind |-> "mem", parent |-> p, inst_name |-> i,
       array_dimensions |-> a[1], array_stride |-> a[2],
       raw_absolute_address |-> topaddr + o,
       mementries |-> m[1], memwidth |-> m[2]] :
         p \in 0..(i - 1), a \in ArrayChoices("mem"), o \in OffsetChoices(i),
         m \in MemChoices }
    \cup
    { [kind |-> "field", parent |-> p, inst_name |-> i,
       array_dimensions |-> <<>>, array_stride |-> 0,
       raw_absolute_address |-> topaddr,
       mementries |-> 0, memwidth |-> 0] : p \in 1..(i - 1) }

\* A node fits under the nodes before it: registers, memories and address maps
\* sit in an address map at or below their parent's address, fields in a
\* register.
FitsUnder(t, s) ==
    IF s.kind = "field"
    THEN t[s.parent].kind = "reg"
    ELSE \/ s.parent = 0
         \/ /\ t[s.parent].kind = "addrmap"
            /\ t[s.parent].raw_absolute_address <= s.raw_absolute_address

\* Every model of exactly n nodes below the top map.
RECURSIVE Trees(_, _)
Trees(n, topaddr) ==
    IF n = 0 THEN { <<>> }
    ELSE UNION { { Append(t, s) : s \in { x \in NodeShapes(n, topaddr) : FitsUnder(t, x) } } :
                 t \in Trees(n - 1, topaddr) }

----------------------------------------------------------------------------
(* The depth-first walk (RDLWalker.walk(top_node, listener, skip_top=True)) *)

\* Path of instance names from the top map down to node i.
RECURSIVE PathTo(_)
PathTo(i) == IF i = 0 THEN <<>> ELSE Append(PathTo(Node(i).parent), Node(i).inst_name)

\* Ancestors of node i below the top, outermost first, node i itself last.
RECURSIVE Lineage(_)
Lineage(i) == IF i = 0 THEN <<>> ELSE Append(Lineage(Node(i).parent), i)

\* Callbacks the walk makes on a DecodeLogicGenerator for the subtree of node i:
\* the callbacks the class does not override do nothing and are left out.
RECURSIVE LogicCallbacks(_)
LogicCallbacks(i) ==
    LET n == Node(i)
        kids == SortedSeq(Children(i))
        below == Flatten([k \in 1..Len(kids) |-> LogicCallbacks(kids[k])])
    IN  IF ~IsAddressable(n.kind) THEN below
        ELSE <<[cb |-> "enter_AddressableComponent", node |-> i]>>
             \o (IF n.kind = "reg" THEN <<[cb |-> "enter_Reg", node |-> i]>>
                 ELSE IF n.kind = "mem" THEN <<[cb |-> "enter_Mem", node |-> i]>>
                 ELSE <<>>)
             \o below
             \o <<[cb |-> "exit_AddressableComponent", node |-> i]>>

\* The whole walk of one get_content call: the top itself is skipped.
LogicWalk ==
    LET kids == SortedSeq(Children(0))
    IN  Flatten([k \in 1..Len(kids) |-> LogicCallbacks(kids[k])])

\* Callbacks the walk makes on a DecodeStructGenerator for the subtree of node i.
RECURSIVE StructCallbacks(_)
StructCallbacks(i) ==
    LET n == Node(i)
        kids == SortedSeq(Children(i))
        below == Flatten([k \in 1..Len(kids) |-> StructCallbacks(kids[k])])
    IN  CASE n.kind = "reg" ->
                <<[cb |-> "enter_Reg", node |-> i]>> \o below
                \o <<[cb |-> "exit_Reg", node |-> i]>>
          [] n.kind = "mem" -> <<[cb |-> "enter_Mem", node |-> i]>> \o below
          [] n.kind = "field" -> <<[cb |-> "enter_Field", node |-> i]>> \o below
          [] OTHER -> below

StructWalk ==
    LET kids == SortedSeq(Children(0))
    IN  Flatten([k \in 1..Len(kids) |-> StructCallbacks(kids[k])])

----------------------------------------------------------------------------
(* Text of the generated statements *)

\* The digits of format(n, "x"), most significant first; the sign of a
\* negative number leads as -1.
RECURSIVE Hex(_)
Hex(n) ==
    IF n < 0 THEN <<-1>> \o Hex(0 - n)
    ELSE IF n < 16 THEN <<n>>
    ELSE Append(Hex(n \div 16), n % 16)

\* The value a digit sequence written by Hex denotes.
RECURSIVE HexVal(_)
HexVal(ds) ==
    IF ds = <<>> THEN 0
    ELSE IF Head(ds) = -1 THEN 0 - HexVal(Tail(ds))
    ELSE HexVal(SubSeq(ds, 1, Len(ds) - 1)) * 16 + ds[Len(ds)]

\* The summands " + i<k>*'h<stride>" a loop over enumerate(strides) appends.
IndexTerms(strides) ==
    [k \in 1..Len(strides) |-> [index |-> k - 1, stride |-> Hex(strides[k])]]

\* membyte_per_entry rounding down.
membyte_per_entry_Floor(node) == node.memwidth \div 8

\* math.ceil(memwidth / 8)
membyte_per_entry(node) ==
    IF node.memwidth % 8 = 0 THEN node.memwidth \div 8 ELSE node.memwidth \div 8 + 1

\* An absent address expression.
NoAddr == [base |-> <<>>, terms |-> <<>>]

----------------------------------------------------------------------------
(* AddressDecode and DecodeLogicGenerator *)

\* get_access_strobe: "decoded_reg_strb." and the path of the node; a field
\* resolves to its parent register.
get_access_strobe(i) ==
    IF Node(i).kind = "field" THEN PathTo(Node(i).parent) ELSE PathTo(i)

\* Loop of enter_AddressableComponent over reversed(array_dimensions).
RECURSIVE CollectStrides(_, _, _)
CollectStrides(dims, current_stride, strides) ==
    IF dims = <<>> THEN strides
    ELSE CollectStrides(Tail(dims), current_stride * Head(dims),
                        Append(strides, current_stride))

\* PushedStrides without strides.reverse(): innermost dimension first.
PushedStrides_NoReverse(node) ==
    IF ~is_array(node) THEN <<>>
    ELSE CollectStrides(Reverse(node.array_dimensions), node.array_stride, <<>>)

\* PushedStrides with the stride multiplied before it is collected.
PushedStrides_MultiplyFirst(node) ==
    IF ~is_array(node) THEN <<>>
    ELSE Reverse(CollectStrides(Reverse(node.array_dimensions),
                                node.array_stride * node.array_dimensions[Len(node.array_dimensions)],
                                <<>>))

\* The strides enter_AddressableComponent extends the stack with.
PushedStrides(node) ==
    IF ~is_array(node) THEN <<>>
    ELSE Reverse(CollectStrides(Reverse(node.array_dimensions), node.array_stride, <<>>))

\* PoppedStack popping once per array node instead of once per dimension.
PoppedStack_PopOnce(stack, node) ==
    IF ~is_array(node) THEN stack
    ELSE SubSeq(stack, 1, Len(stack) - 1)

\* PoppedStack emptying the stack when it leaves an array.
PoppedStack_Clear(stack, node) ==
    IF ~is_array(node) THEN stack ELSE <<>>

\* The stack after exit_AddressableComponent popped once per dimension.
PoppedStack(stack, node) ==
    IF ~is_array(node) THEN stack
    ELSE SubSeq(stack, 1, Len(stack) - Len(node.array_dimensions))

\* get_address_str numbering the loop indices from 1.
get_address_str_IndexFromOne(node, stack) ==
    [base |-> Hex(node.raw_absolute_address - top_node.raw_absolute_address),
     terms |-> [k \in 1..Len(stack) |-> [index |-> k, stride |-> Hex(stack[k])]]]

\* get_address_str with the absolute address of the node as the base.
get_address_str_Absolute(node, stack) ==
    [base |-> Hex(node.raw_absolute_address), terms |-> IndexTerms(stack)]

get_address_str(node, stack) ==
    [base |-> Hex(node.raw_absolute_address - top_node.raw_absolute_address),
     terms |-> IndexTerms(stack)]

gen_mem_array_stride(node) ==
    LET array_dimensions_reverse == Reverse(node.array_dimensions)
        array_stride_stack0 ==
            <<node.array_stride>>
            \o [dim \in 1..(Len(array_dimensions_reverse) - 1) |->
                    node.array_stride * array_dimensions_reverse[dim]]
    IN  Reverse(array_stride_stack0)

get_mem_address_str(node) ==
    [base |-> Hex(node.raw_absolute_address - top_node.raw_absolute_address),
     terms |-> IF is_array(node) THEN IndexTerms(gen_mem_array_stride(node)) ELSE <<>>]

\* get_upper_mem_address_str taking its summands from the outermost dimension
\* only.
get_upper_mem_address_str_OuterOnly(node) ==
    [base |-> Hex(node.raw_absolute_address - top_node.raw_absolute_address
                  + membyte_per_entry(node) * node.mementries),
     terms |-> IF is_array(node)
               THEN IndexTerms(SubSeq(gen_mem_array_stride(node), 1, 1)) ELSE <<>>]

get_upper_mem_address_str(node) ==
    [base |-> Hex(node.raw_absolute_address - top_node.raw_absolute_address
                  + membyte_per_entry(node) * node.mementries),
     terms |-> IF is_array(node) THEN IndexTerms(gen_mem_array_stride(node)) ELSE <<>>]

\* The statement enter_Reg appends: strobe = cpuif_req_masked & (cpuif_addr == addr)
RegStatement(i, stack) ==
    [strobe |-> get_access_strobe(i), req |-> "cpuif_req_masked", form |-> "==",
     addr |-> get_address_str(Node(i), stack), upper |-> NoAddr]

\* The statement enter_Mem appends:
\* strobe = cpuif_req_masked & (cpuif_addr >= (addr)) & (cpuif_addr < (upper))
MemStatement(i) ==
    [strobe |-> get_access_strobe(i), req |-> "cpuif_req_masked", form |-> ">=<",
     addr |-> get_mem_address_str(Node(i)),
     upper |-> get_upper_mem_address_str(Node(i))]

----------------------------------------------------------------------------
(* DecodeStructGenerator *)

\* add_member of the struct generator: one more field of the struct.
add_member(members, name, array_dimensions) ==
    Append(members, [name |-> name, array_dimensions |-> array_dimensions])

Struct_enter_Reg(members, node) ==
    add_member(members, node.inst_name, node.array_dimensions)

Struct_enter_Mem(members, node) ==
    add_member(members, node.inst_name, node.array_dimensions)

Struct_exit_Reg(members, node) == members

\* enter_Field as the struct generator has it when it is not stubbed out: a
\* member per field.
Struct_enter_Field_AddsMember(members, node) ==
    add_member(members, node.inst_name, <<>>)

Struct_enter_Field(members, node) == members

\* The members after the listener received the callbacks cbs in order.
RECURSIVE StructListen(_, _)
StructListen(members, cbs) ==
    IF cbs = <<>> THEN members
    ELSE LET c == Head(cbs)
             n == Node(c.node)
             m == CASE c.cb = "enter_Reg" -> Struct_enter_Reg(members, n)
                    [] c.cb = "enter_Mem" -> Struct_enter_Mem(members, n)
                    [] c.cb = "exit_Reg" -> Struct_exit_Reg(members, n)
                    [] c.cb = "enter_Field" -> Struct_enter_Field(members, n)
         IN  StructListen(m, Tail(cbs))

\* get_struct(top_node, "decoded_reg_strb_t"): None for a struct without members.
get_struct ==
    LET members == StructListen(<<>>, StructWalk)
    IN  [none |-> members = <<>>, type_name |-> "decoded_reg_strb_t", members |-> members]

\* get_content's result after the walk: None when nothing was added.
finish(body) == [none |-> body = <<>>, body |-> body]

Unset == [status |-> "unset", value |-> <<>>]
Returned(v) == [status |-> "returned", value |-> v]
AssertionError == [status |-> "AssertionError", value |-> <<>>]

\* StrobeStructResult without the assertion.
StrobeStructResult_NoAssert(s) == Returned(s.members)

\* What get_strobe_struct does with the result s of get_struct.
StrobeStructResult(s) == IF s.none THEN AssertionError ELSE Returned(s.members)

\* What get_implementation does with the result s of get_content.
ImplementationResult(s) == IF s.none THEN AssertionError ELSE Returned(s.body)

----------------------------------------------------------------------------
(* The state machine *)

Init ==
    /\ \E a \in TopAddrChoices : \E n \in 0..MaxNodes : \E t \in Trees(n, a) :
          top_node = [raw_absolute_address |-> a, nodes |-> t]
    /\ pc = "Idle"
    /\ walk = <<>>
    /\ pos = 0
    /\ array_stride_stack = <<>>
    /\ content = <<>>
    /\ impl_ret = Unset
    /\ struct_ret = Unset

\* The callback the walk makes next.
NextCallback == walk[pos]

Walking(cb) == pc = "Traversing" /\ pos <= Len(walk) /\ NextCallback.cb = cb

\* AddressDecode.get_strobe_struct, a whole call.
get_strobe_struct ==
    /\ pc \in {"Idle", "Done"}
    /\ struct_ret' = StrobeStructResult(get_struct)
    /\ UNCHANGED <<top_node, pc, walk, pos, array_stride_stack, content, impl_ret>>

\* get_implementation walking with the generator of the call before instead
\* of a new one: stride stack and content are what that call left.
get_implementation_ReusedGenerator ==
    /\ pc \in {"Idle", "Done"}
    /\ pc' = "Traversing"
    /\ walk' = LogicWalk
    /\ pos' = 1
    /\ UNCHANGED <<top_node, array_stride_stack, content, impl_ret, struct_ret>>

\* AddressDecode.get_implementation up to the start of the walk: a new
\* DecodeLogicGenerator, its stride stack and its content empty.
get_implementation ==
    /\ pc \in {"Idle", "Done"}
    /\ pc' = "Traversing"
    /\ walk' = LogicWalk
    /\ pos' = 1
    /\ array_stride_stack' = <<>>
    /\ content' = <<>>
    /\ UNCHANGED <<top_node, impl_ret, struct_ret>>

enter_AddressableComponent ==
    /\ Walking("enter_AddressableComponent")
    /\ array_stride_stack' = array_stride_stack \o PushedStrides(Node(NextCallback.node))
    /\ pos' = pos + 1
    /\ UNCHANGED <<top_node, pc, walk, content, impl_ret, struct_ret>>

enter_Reg ==
    /\ Walking("enter_Reg")
    /\ content' = Append(content, RegStatement(NextCallback.node, array_stride_stack))
    /\ pos' = pos + 1
    /\ UNCHANGED <<top_node, pc, walk, array_stride_stack, impl_ret, struct_ret>>

\* enter_Mem without the call of add_content.
enter_Mem_NoContent ==
    /\ Walking("enter_Mem")
    /\ pos' = pos + 1
    /\ UNCHANGED <<top_node, pc, walk, array_stride_stack, content, impl_ret, struct_ret>>

enter_Mem ==
    /\ Walking("enter_Mem")
    /\ content' = Append(content, MemStatement(NextCallback.node))
    /\ pos' = pos + 1
    /\ UNCHANGED <<top_node, pc, walk, array_stride_stack, impl_ret, struct_ret>>

exit_AddressableComponent ==
    /\ Walking("exit_AddressableComponent")
    /\ array_stride_stack' = PoppedStack(array_stride_stack, Node(NextCallback.node))
    /\ pos' = pos + 1
    /\ UNCHANGED <<top_node, pc, walk, content, impl_ret, struct_ret>>

\* The end of get_implementation: get_content returns and the result is
\* asserted not to be None.
get_implementation_return ==
    /\ pc = "Traversing"
    /\ pos > Len(walk)
    /\ impl_ret' = ImplementationResult(finish(content))
    /\ pc' = "Done"
    /\ UNCHANGED <<top_node, walk, pos, array_stride_stack, content, struct_ret>>

Next ==
    \/ get_strobe_struct
    \/ get_implementation
    \/ enter_AddressableComponent
    \/ enter_Reg
    \/ enter_Mem
    \/ exit_AddressableComponent
    \/ get_implementation_return

Spec == Init /\ [][Next]_vars

\* A walk the listener contract forbids: the walk of the model with the
\* exit_AddressableComponent of one array node left out.
MalformedWalks ==
    LET w == LogicWalk
    IN  { SubSeq(w, 1, k - 1) \o SubSeq(w, k + 1, Len(w)) :
            k \in { j \in 1..Len(w) : /\ w[j].cb = "exit_AddressableComponent"
                                      /\ is_array(Node(w[j].node)) } }

\* get_implementation driven by a walker that breaks the contract.
get_implementation_malformed ==
    /\ pc \in {"Idle", "Done"}
    /\ pc' = "Traversing"
    /\ walk' \in MalformedWalks
    /\ pos' = 1
    /\ array_stride_stack' = <<>>
    /\ content' = <<>>
    /\ UNCHANGED <<top_node, impl_ret, struct_ret>>

NextMalformed ==
    \/ get_strobe_struct
    \/ get_implementation
    \/ get_implementation_malformed
    \/ enter_AddressableComponent
    \/ enter_Reg
    \/ enter_Mem
    \/ exit_AddressableComponent
    \/ get_implementation_return

\* The generator under walkers that may leave out an exit callback.
SpecMalformed == Init /\ [][NextMalformed]_vars

----------------------------------------------------------------------------
(* Vocabulary of the properties *)

\* Product of the elements of a sequence.
RECURSIVE Product(_)
Product(s) == IF s = <<>> THEN 1 ELSE Head(s) * Product(Tail(s))

Rank(i) == Len(Node(i).array_dimensions)

\* Stride of dimension k of an array node: array_stride times the sizes of all
\* dimensions inside dimension k.
DimStride(node, k) ==
    node.array_stride
    * Product(SubSeq(node.array_dimensions, k + 1, Len(node.array_dimensions)))

DimStrides(node) == [k \in 1..Len(node.array_dimensions) |-> DimStride(node, k)]

\* The strides of all array dimensions on the path from the top to node i,
\* outermost first.
PathStrides(i) ==
    LET path == Lineage(i)
    IN  Flatten([k \in 1..Len(path) |-> DimStrides(Node(path[k]))])

\* Nodes entered and not yet left at the current point of the walk.
OpenNodes ==
    { i \in NodeIds :
        /\ \E a \in 1..(pos - 1) :
              walk[a] = [cb |-> "enter_AddressableComponent", node |-> i]
        /\ \E b \in pos..Len(walk) :
              walk[b] = [cb |-> "exit_AddressableComponent", node |-> i] }

\* The innermost node being visited, 0 for the top.
CurrentNode ==
    IF OpenNodes = {} THEN 0 ELSE CHOOSE i \in OpenNodes : \A j \in OpenNodes : j <= i

\* The node a statement assigns the strobe of.
StatementNode(st) == st.strobe[Len(st.strobe)]

LastStatement(c) == c[Len(c)]

\* The callback the walk made last.
LastCallback == walk[pos - 1]

Made(cb) == pc = "Traversing" /\ pos > 1 /\ LastCallback.cb = cb

----------------------------------------------------------------------------
(* Properties *)

\* C1: the stride stack is empty when a traversal starts and empty again when
\* it has made its last callback and after it returned: over a whole
\* get_implementation call as many strides are popped as were pushed.
C1_StackEmptyBeforeAndAfter ==
    /\ (pc = "Traversing" /\ pos = 1) => array_stride_stack = <<>>
    /\ (pc = "Traversing" /\ pos > Len(walk)) => array_stride_stack = <<>>
    /\ pc \in {"Idle", "Done"} => array_stride_stack = <<>>

\* A traversal over nested arrays has finished.
C1_Witness ==
    /\ pc = "Done"
    /\ \E i, j \in NodeIds :
          /\ Node(j).parent = i
          /\ is_array(Node(i))
          /\ Rank(j) >= 2

\* C2: at any point of the traversal the depth of the stride stack is the sum
\* of the array ranks of the nodes being visited, and the stack holds the
\* strides of the dimensions on the path from the top to the current node,
\* outermost first.
C2_StackIsNestingPath ==
    pc = "Traversing" =>
        LET path == Lineage(CurrentNode)
        IN  /\ Len(array_stride_stack) = SumSeq([k \in 1..Len(path) |-> Rank(path[k])])
            /\ OpenNodes = { path[k] : k \in 1..Len(path) }
            /\ array_stride_stack = PathStrides(CurrentNode)

\* Inside an array nested in an array, three or more strides on the stack.
C2_Witness ==
    /\ pc = "Traversing"
    /\ Cardinality({ i \in OpenNodes : is_array(Node(i)) }) = 2
    /\ Len(array_stride_stack) >= 3

\* C3: the statement enter_Reg appends has the root-relative offset of the
\* register as its base and one summand per entry of the stride stack, in
\* stack order: summand k names loop index i<k-1> and carries stack entry k,
\* so the summands are one per array dimension on the path to the register.
C3_RegAddressFollowsStack ==
    [][ enter_Reg =>
          LET i == NextCallback.node
              a == LastStatement(content').addr
          IN  /\ Len(content') = Len(content) + 1
              /\ LastStatement(content').form = "=="
              /\ HexVal(a.base) = Node(i).raw_absolute_address - top_node.raw_absolute_address
              /\ Len(a.terms) = Len(array_stride_stack)
              /\ \A k \in 1..Len(a.terms) :
                    /\ a.terms[k].index = k - 1
                    /\ HexVal(a.terms[k].stride) = array_stride_stack[k]
                    /\ HexVal(a.terms[k].stride) = PathStrides(i)[k]
              /\ Len(a.terms) = Len(PathStrides(i)) ]_vars

\* A register three array levels deep has been visited.
C3_Witness ==
    /\ Made("enter_Reg")
    /\ Len(LastStatement(content).addr.terms) = 3
    /\ Node(LastCallback.node).parent # 0
    /\ is_array(Node(Node(LastCallback.node).parent))

\* C8: enter_AddressableComponent on an array node pushes one stride per
\* dimension on top of the stack, outermost first: the innermost is
\* array_stride and every other is the next inner stride times the size of the
\* next inner dimension ([2,3] with stride 4 pushes [12,4]); on a node that is
\* not an array it leaves the stack as it is.
C8_EnterPushesStrides ==
    [][ enter_AddressableComponent =>
          LET n == Node(NextCallback.node)
              dims == n.array_dimensions
              r == Len(dims)
              pushed == SubSeq(array_stride_stack', Len(array_stride_stack) + 1,
                               Len(array_stride_stack'))
          IN  /\ Len(array_stride_stack') = Len(array_stride_stack) + r
              /\ SubSeq(array_stride_stack', 1, Len(array_stride_stack)) = array_stride_stack
              /\ r > 0 => pushed[r] = n.array_stride
              /\ \A k \in 1..(r - 1) : pushed[k] = pushed[k + 1] * dims[k + 1]
              /\ (dims = <<2, 3>> /\ n.array_stride = 4) => pushed = <<12, 4>>
              /\ ~is_array(n) => array_stride_stack' = array_stride_stack ]_vars

\* An array of dimensions [2,3] and stride 4 has just been entered.
C8_Witness ==
    /\ Made("enter_AddressableComponent")
    /\ Node(LastCallback.node).array_dimensions = <<2, 3>>
    /\ Node(LastCallback.node).array_stride = 4
    /\ array_stride_stack # <<>>

\* The value of an address expression when loop index i<k> is idx[k + 1].
AddrValue(a, idx) ==
    LET strides == [k \in 1..Len(a.terms) |-> HexVal(a.terms[k].stride)]
    IN  HexVal(a.base)
        + SumSeq([k \in 1..Len(a.terms) |-> idx[a.terms[k].index + 1] * strides[k]])

\* Index tuples of a node's own dimensions, by position.
OwnIndices(node) ==
    { idx \in [1..Len(node.array_dimensions) -> 0..2] :
        \A k \in 1..Len(node.array_dimensions) : idx[k] < node.array_dimensions[k] }

MemStatements(c) == { k \in 1..Len(c) : Node(StatementNode(c[k])).kind = "mem" }
RegStatements(c) == { k \in 1..Len(c) : Node(StatementNode(c[k])).kind = "reg" }

\* C4: the statement enter_Mem appends carries, in its low and in its high
\* bound, one summand per entry of the stride stack, in stack order, as the
\* statement of a register visited at this point would.
C4_MemSummandsFollowStack ==
    [][ enter_Mem =>
          LET st == LastStatement(content')
          IN  \A a \in {st.addr, st.upper} :
                /\ Len(a.terms) = Len(array_stride_stack)
                /\ \A k \in 1..Len(a.terms) :
                      /\ a.terms[k].index = k - 1
                      /\ HexVal(a.terms[k].stride) = array_stride_stack[k] ]_vars

\* C5: in the statement of every memory the low and the high bound carry the
\* same summands, so at every array position the high bound lies the span
\* ceil(memwidth/8)*mementries above the low bound.
C5_MemBoundsMoveTogether ==
    \A k \in MemStatements(content) :
        LET st == content[k]
            n == Node(StatementNode(st))
        IN  /\ st.addr.terms = st.upper.terms
            /\ \A idx \in OwnIndices(n) :
                  AddrValue(st.upper, idx) - AddrValue(st.addr, idx)
                      = ((n.memwidth + 7) \div 8) * n.mementries

\* The statement of a memory array of two or more dimensions has been appended.
C5_Witness ==
    \E k \in MemStatements(content) :
        /\ Len(content[k].addr.terms) >= 2
        /\ Len(content[k].upper.terms) >= 2

\* C6: the statement of every memory is the half-open range from the
\* root-relative offset of the memory to that offset plus
\* ceil(memwidth/8)*mementries: a width of 9 bits and one entry span 2 bytes,
\* and 4 entries of 32 bits at offset 0x100 give the bounds 0x100 and 0x110.
C6_MemRange ==
    \A k \in MemStatements(content) :
        LET st == content[k]
            n == Node(StatementNode(st))
            low == n.raw_absolute_address - top_node.raw_absolute_address
        IN  /\ st.form = ">=<"
            /\ st.req = "cpuif_req_masked"
            /\ HexVal(st.addr.base) = low
            /\ HexVal(st.upper.base) = low + ((n.memwidth + 7) \div 8) * n.mementries
            /\ (n.memwidth = 9 /\ n.mementries = 1) =>
                    HexVal(st.upper.base) - HexVal(st.addr.base) = 2
            /\ (n.memwidth = 32 /\ n.mementries = 4 /\ low = 256 /\ ~is_array(n)) =>
                    /\ st.addr = [base |-> <<1, 0, 0>>, terms |-> <<>>]
                    /\ st.upper = [base |-> <<1, 1, 0>>, terms |-> <<>>]

\* Both memories of the examples have been visited: 4 entries of 32 bits at
\* offset 0x100 and one entry of 9 bits.
C6_Witness ==
    /\ \E k \in MemStatements(content) :
          LET n == Node(StatementNode(content[k]))
          IN  /\ n.memwidth = 32 /\ n.mementries = 4 /\ ~is_array(n)
              /\ n.raw_absolute_address - top_node.raw_absolute_address = 256
    /\ \E k \in MemStatements(content) :
          LET n == Node(StatementNode(content[k]))
          IN  n.memwidth = 9 /\ n.mementries = 1

\* C7 as stated: the statement of every register that is not an array is the
\* request qualifier and an equality with the bare root-relative offset, no
\* summand, wherever the register sits.
C7_PlainRegBareOffset ==
    \A k \in RegStatements(content) :
        LET st == content[k]
            n == Node(StatementNode(st))
        IN  ~is_array(n) =>
                /\ st.req = "cpuif_req_masked"
                /\ st.form = "=="
                /\ HexVal(st.addr.base) = n.raw_absolute_address - top_node.raw_absolute_address
                /\ st.addr.terms = <<>>

\* No array on the path from the top to node i, node i included.
NoArrayOnPath(i) == \A k \in 1..Len(Lineage(i)) : ~is_array(Node(Lineage(i)[k]))

\* C7 amended: the statement of every register that is not an array and has
\* no array among its ancestors is the request qualifier and an equality with
\* the bare root-relative offset, no summand.
C7_PlainRegOutsideArrays ==
    \A k \in RegStatements(content) :
        LET st == content[k]
            n == Node(StatementNode(st))
        IN  NoArrayOnPath(StatementNode(st)) =>
                /\ st.req = "cpuif_req_masked"
                /\ st.form = "=="
                /\ HexVal(st.addr.base) = n.raw_absolute_address - top_node.raw_absolute_address
                /\ st.addr.terms = <<>>

\* A register that is no array, in an address map that is no array, under a
\* top map at a non-zero address, has been visited.
C7_Witness ==
    \E k \in RegStatements(content) :
        /\ NoArrayOnPath(StatementNode(content[k]))
        /\ Node(StatementNode(content[k])).parent # 0
        /\ top_node.raw_absolute_address > 0

HasLeaf == \E i \in NodeIds : Node(i).kind \in {"reg", "mem"}

\* C9: get_strobe_struct on a model without register and memory fails (the
\* assertion) and returns no shape; on a model with a register or a memory
\* it returns a shape with members.
C9_EmptyModelFails ==
    struct_ret.status # "unset" =>
        /\ ~HasLeaf => struct_ret = AssertionError
        /\ HasLeaf => (struct_ret.status = "returned" /\ struct_ret.value # <<>>)

\* get_strobe_struct has failed on a model of nested address maps.
C9_Witness ==
    /\ struct_ret.status = "AssertionError"
    /\ \E i \in NodeIds : Node(i).parent # 0

\* Nodes of the subtree of node i in depth-first pre-order, children in the
\* order of their node numbers.
RECURSIVE PreOrder(_)
PreOrder(i) ==
    LET kids == SortedSeq(Children(i))
    IN  <<i>> \o Flatten([k \in 1..Len(kids) |-> PreOrder(kids[k])])

IsLeaf(i) == i # 0 /\ Node(i).kind \in {"reg", "mem"}

\* The registers and memories of the model in depth-first pre-order.
Leaves == SelectSeq(PreOrder(0), IsLeaf)

\* Registers and memories the walk in progress has visited.
VisitedLeaves == { a \in 1..(pos - 1) : walk[a].cb \in {"enter_Reg", "enter_Mem"} }

StrobeNodes(c) == [k \in 1..Len(c) |-> StatementNode(c[k])]

\* C10: during a traversal the body holds one statement per register or
\* memory visited so far and none for another node, in depth-first pre-order;
\* when get_implementation is done and returned a body, the body holds the
\* statement of every register and memory, and it returns one whenever the
\* model has a register or a memory.
C10_OneStatementPerLeaf ==
    LET leaves == Leaves
    IN  /\ pc = "Traversing" =>
              /\ Len(content) = Cardinality(VisitedLeaves)
              /\ Len(content) <= Len(leaves)
              /\ StrobeNodes(content) = SubSeq(leaves, 1, Len(content))
              /\ \A k \in 1..Len(content) : content[k].strobe = PathTo(leaves[k])
        /\ pc = "Done" =>
              /\ impl_ret.status = "returned" => StrobeNodes(impl_ret.value) = leaves
              /\ leaves # <<>> => impl_ret.status = "returned"

\* A body with the statements of a memory and of a register has been returned.
C10_Witness ==
    /\ pc = "Done"
    /\ impl_ret.status = "returned"
    /\ Len(impl_ret.value) = 2
    /\ MemStatements(impl_ret.value) # {}
    /\ RegStatements(impl_ret.value) # {}

\* C11: once get_strobe_struct or get_implementation has returned on a model,
\* every later call of it on the same model returns the same: what a call
\* leaves behind (stride stack, content) does not reach the next call.
C11_SecondRunSameOutput ==
    [][ /\ impl_ret.status # "unset" => impl_ret' = impl_ret
        /\ struct_ret.status # "unset" => struct_ret' = struct_ret ]_vars

\* A second get_implementation has finished its walk over a model with an
\* array and statements, the results of the first calls at hand.
C11_Witness ==
    /\ pc = "Traversing"
    /\ pos > Len(walk)
    /\ impl_ret.status = "returned"
    /\ struct_ret.status = "returned"
    /\ content # <<>>
    /\ \E i \in NodeIds : is_array(Node(i))

\* C12: a get_implementation whose traversal ended with strides left on the
\* stack has raised an error (StackImbalanceError) and not returned the
\* accumulated body.
C12_ImbalanceRaises ==
    (pc = "Done" /\ array_stride_stack # <<>>) =>
        impl_ret.status # "returned"

\* C13: the shape get_strobe_struct returns has one member for every register
\* and every memory of the model, in the order of the walk, named after the
\* node and carrying its array dimensions, and no member for a field.
C13_OneMemberPerLeaf ==
    struct_ret.status = "returned" =>
        LET leaves == Leaves
            members == struct_ret.value
        IN  /\ Len(members) = Len(leaves)
            /\ \A k \in 1..Len(members) :
                  /\ members[k].name = Node(leaves[k]).inst_name
                  /\ members[k].array_dimensions = Node(leaves[k]).array_dimensions
            /\ \A i \in NodeIds :
                  Node(i).kind \in {"field", "addrmap"} =>
                      \A k \in 1..Len(members) : members[k].name # Node(i).inst_name

\* The shape of a model with a register array and a field in it has been
\* returned.
C13_Witness ==
    /\ struct_ret.status = "returned"
    /\ \E i \in NodeIds : Node(i).kind = "field"
    /\ \E k \in 1..Len(struct_ret.value) : struct_ret.value[k].array_dimensions # <<>>

\* C14: exit_AddressableComponent takes exactly one entry per dimension of an
\* array node off the top of the stride stack, which holds at least that
\* many, and leaves the stack of a node that is no array as it is; enter_Reg
\* and enter_Mem leave the stack as it is.
C14_ExitPopsRank ==
    [][ /\ exit_AddressableComponent =>
              LET n == Node(NextCallback.node)
                  r == Len(n.array_dimensions)
              IN  /\ Len(array_stride_stack) >= r
                  /\ Len(array_stride_stack') = Len(array_stride_stack) - r
                  /\ array_stride_stack'
                        = SubSeq(array_stride_stack, 1, Len(array_stride_stack'))
                  /\ ~is_array(n) => array_stride_stack' = array_stride_stack
        /\ (enter_Reg \/ enter_Mem) => array_stride_stack' = array_stride_stack
      ]_vars

\* An array of two or more dimensions inside an array has just been left.
C14_Witness ==
    /\ Made("exit_AddressableComponent")
    /\ Rank(LastCallback.node) >= 2
    /\ array_stride_stack # <<>>

\* C15: when enter_Mem visits a memory array, of whatever rank, the strides
\* _gen_mem_array_stride computes for it are the strides
\* enter_AddressableComponent has just pushed for it: the top entries of the
\* stride stack, one per dimension.
C15_MemStridesArePushedStrides ==
    [][ enter_Mem =>
          LET n == Node(NextCallback.node)
              r == Len(n.array_dimensions)
              top == SubSeq(array_stride_stack, Len(array_stride_stack) - r + 1,
                            Len(array_stride_stack))
          IN  is_array(n) => gen_mem_array_stride(n) = top ]_vars

\* Span in bytes of one element of the array a statement decodes: a memory
\* spans its entries, a register one array_stride.
ElementSpan(n) ==
    IF n.kind = "mem" THEN ((n.memwidth + 7) \div 8) * n.mementries ELSE n.array_stride

\* The bus addresses a statement asserts its strobe for at the array position
\* idx, as the pair of the first address and the address after the last.
DecodedRange(st, idx) ==
    IF st.form = "==" THEN <<AddrValue(st.addr, idx), AddrValue(st.addr, idx) + 1>>
    ELSE <<AddrValue(st.addr, idx), AddrValue(st.upper, idx)>>

Disjoint(a, b) == a[2] <= b[1] \/ b[2] <= a[1]

\* C16: the statement of an array node under no other array, its array_stride
\* at least the span of one element, decodes no bus address at two positions
\* of the array: the addresses of a register array are pairwise distinct, the
\* ranges of a memory array pairwise disjoint.
C16_ArrayElementsDisjoint ==
    \A k \in 1..Len(content) :
        LET st == content[k]
            i == StatementNode(st)
            n == Node(i)
        IN  (/\ is_array(n)
             /\ NoArrayOnPath(n.parent)
             /\ n.array_stride >= ElementSpan(n)) =>
                \A idx1, idx2 \in OwnIndices(n) :
                    idx1 # idx2 => Disjoint(DecodedRange(st, idx1), DecodedRange(st, idx2))

====
